---- MODULE Spec2Model ----
(***************************************************************************)
(* Model of ArimaaAnalyzer.Maui/Aiexecutables/mypy.py: a script that       *)
(* launches an external engine, drains its output through a background     *)
(* thread into a queue, sends a fixed board setup and "go", polls the      *)
(* queue until a line starting with "bestmove" appears, then sends "quit"  *)
(* and waits for the process.                                              *)
(*                                                                         *)
(* Text is modelled as sequences of code points, pipe contents as          *)
(* sequences of bytes (0..255).                                            *)
(***************************************************************************)
EXTENDS Integers, Sequences, FiniteSets, TLC

VARIABLES
    pc,          \* position of the main thread in the script
    nsent,       \* number of commands written successfully so far
    error,       \* exception that ended the main thread ("none" if none)
    alive,       \* the engine process is running
    inOpen,      \* the engine still holds the read end of its stdin pipe
    outOpen,     \* the engine still holds the write end of its stdout pipe
    stdinBytes,  \* every byte written to engine.stdin, in order
    pipe,        \* bytes in the stdout pipe, written and not yet read
    emitted,     \* history: every byte the engine has written to stdout
    nwrites,     \* number of writes the engine has made (bounded)
    earlyWrite,  \* history: the engine wrote output before "go" was sent
    dpc,         \* position of the drainer thread in enqueue_output
    dline,       \* the drainer's local variable `line` (raw bytes)
    q,           \* the queue.Queue shared by drainer and main thread
    observed,    \* history: lines returned by q.get in the wait loop
    console,     \* what the script printed, one record per print call
    bestmove     \* the script's variable `bestmove` (None until assigned)

vars == <<pc, nsent, error, alive, inOpen, outOpen, stdinBytes, pipe, emitted,
          nwrites, earlyWrite, dpc, dline, q, observed, console, bestmove>>

mainVars   == <<pc, nsent, error, stdinBytes, observed, console, bestmove>>
engineVars == <<alive, inOpen, outOpen, emitted, nwrites, earlyWrite>>
drainVars  == <<dpc, dline>>

-----------------------------------------------------------------------------
(* Bounds *)

\* the engine makes at most this many writes to its output
MaxWrites == 2

-----------------------------------------------------------------------------
(* Literals of the script *)

\* "\n"
NL == 10

None == <<-1>>

\* "bestmove"
BESTMOVE == <<98, 101, 115, 116, 109, 111, 118, 101>>

\* "quit"
QUIT == <<113, 117, 105, 116>>

\* "go"
GO == <<103, 111>>

\* the commands of lines 32-46, in program order
Script ==
    << <<112, 111, 115, 105, 116, 105, 111, 110, 32, 49, 119>>,      \* "position 1w"
       <<115, 101, 116, 117, 112>>,                                  \* "setup"
       <<32, 32, 114, 32, 114, 32, 114, 32, 114, 32, 114, 32, 114, 32, 114, 32, 114>>, \* "  r r r r r r r r"
       <<32, 32, 104, 32, 99, 32, 100, 32, 109, 32, 101, 32, 100, 32, 99, 32, 104>>,   \* "  h c d m e d c h"
       <<32, 32, 46, 32, 46, 32, 46, 32, 46, 32, 46, 32, 46, 32, 46, 32, 46>>,         \* "  . . . . . . . ."
       <<32, 32, 46, 32, 46, 32, 46, 32, 46, 32, 46, 32, 46, 32, 46, 32, 46>>,
       <<32, 32, 46, 32, 46, 32, 46, 32, 46, 32, 46, 32, 46, 32, 46, 32, 46>>,
       <<32, 32, 46, 32, 46, 32, 46, 32, 46, 32, 46, 32, 46, 32, 46, 32, 46>>,
       <<32, 32, 72, 32, 67, 32, 68, 32, 77, 32, 69, 32, 68, 32, 67, 32, 72>>,         \* "  H C D M E D C H"
       <<32, 32, 82, 32, 82, 32, 82, 32, 82, 32, 82, 32, 82, 32, 82, 32, 82>>,         \* "  R R R R R R R R"
       <<101, 110, 100>>,                                            \* "end"
       GO >>

-----------------------------------------------------------------------------
(* What the engine may write: the engine is opaque, so it writes any of    *)
(* these chunks in any order.                                              *)

\* b"bestmove m a2a3\n"
BestmoveLine == <<98, 101, 115, 116, 109, 111, 118, 101, 32, 109, 32, 97, 50, 97, 51, 10>>

\* "é bestmove\n\n" in UTF-8, two lines in one write: the first contains
\* "bestmove" and does not start with it, the second is empty
DiagLines == <<195, 169, 32, 98, 101, 115, 116, 109, 111, 118, 101, 10, 10>>

\* b"bestmove" with no line terminator
Fragment == BESTMOVE

\* b"\n"
EmptyLine == <<NL>>

\* b"\xff\n": not valid UTF-8
BadLine == <<255, NL>>

Chunks == {BestmoveLine, DiagLines, Fragment, EmptyLine, BadLine}

-----------------------------------------------------------------------------
(* str.encode("utf-8") and bytes.decode("utf-8") *)

EncodeChar(c) ==
    IF c < 128 THEN <<c>>
    ELSE IF c < 2048 THEN <<192 + (c \div 64), 128 + (c % 64)>>
    ELSE IF c < 65536 THEN <<224 + (c \div 4096), 128 + ((c \div 64) % 64), 128 + (c % 64)>>
    ELSE <<240 + (c \div 262144), 128 + ((c \div 4096) % 64),
           128 + ((c \div 64) % 64), 128 + (c % 64)>>

RECURSIVE Encode(_)
Encode(s) == IF s = <<>> THEN <<>> ELSE EncodeChar(Head(s)) \o Encode(Tail(s))

IsCont(bs, i) == i <= Len(bs) /\ bs[i] >= 128 /\ bs[i] <= 191

\* number of bytes of the well-formed UTF-8 sequence that starts bs, 0 if none
CharLen(bs) ==
    LET b == bs[1] IN
    IF b < 128 THEN 1
    ELSE IF b >= 194 /\ b <= 223 /\ IsCont(bs, 2) THEN 2
    ELSE IF b >= 224 /\ b <= 239 /\ IsCont(bs, 2) /\ IsCont(bs, 3)
            /\ LET cp == (b - 224) * 4096 + (bs[2] - 128) * 64 + (bs[3] - 128)
               IN cp >= 2048 /\ ~(cp >= 55296 /\ cp <= 57343) THEN 3
    ELSE IF b >= 240 /\ b <= 244 /\ IsCont(bs, 2) /\ IsCont(bs, 3) /\ IsCont(bs, 4)
            /\ LET cp == (b - 240) * 262144 + (bs[2] - 128) * 4096
                         + (bs[3] - 128) * 64 + (bs[4] - 128)
               IN cp >= 65536 /\ cp <= 1114111 THEN 4
    ELSE 0

CodePoint(bs, n) ==
    IF n = 1 THEN bs[1]
    ELSE IF n = 2 THEN (bs[1] - 192) * 64 + (bs[2] - 128)
    ELSE IF n = 3 THEN (bs[1] - 224) * 4096 + (bs[2] - 128) * 64 + (bs[3] - 128)
    ELSE (bs[1] - 240) * 262144 + (bs[2] - 128) * 4096 + (bs[3] - 128) * 64 + (bs[4] - 128)

\* bytes.decode("utf-8") raises UnicodeDecodeError
RECURSIVE DecodeFails(_)
DecodeFails(bs) ==
    IF bs = <<>> THEN FALSE
    ELSE LET n == CharLen(bs) IN
         n = 0 \/ DecodeFails(SubSeq(bs, n + 1, Len(bs)))

\* bytes.decode("utf-8") where it does not raise
RECURSIVE Decode(_)
Decode(bs) ==
    IF bs = <<>> THEN <<>>
    ELSE LET n == CharLen(bs) IN
         <<CodePoint(bs, n)>> \o Decode(SubSeq(bs, n + 1, Len(bs)))

\* str.rstrip("\n")
RECURSIVE RStripNL(_)
RStripNL(s) ==
    IF s # <<>> /\ s[Len(s)] = NL THEN RStripNL(SubSeq(s, 1, Len(s) - 1)) ELSE s

\* mutant of StartsWith: the pattern may occur anywhere (`p in s`)
StartsWith_Contains(s, p) ==
    \E k \in 0..(Len(s) - Len(p)) : \A i \in 1..Len(p) : s[k + i] = p[i]

\* str.startswith
StartsWith(s, p) ==
    Len(s) >= Len(p) /\ \A i \in 1..Len(p) : s[i] = p[i]

-----------------------------------------------------------------------------
(* stream.readline on the buffered pipe *)

HasNewline(buf) == \E i \in 1..Len(buf) : buf[i] = NL

\* number of bytes readline returns: through the first "\n", or all that is
\* left when the stream has ended
LineEnd(buf) ==
    IF HasNewline(buf)
    THEN CHOOSE i \in 1..Len(buf) : buf[i] = NL /\ \A j \in 1..(i - 1) : buf[j] # NL
    ELSE Len(buf)

ReadLine(buf) == SubSeq(buf, 1, LineEnd(buf))

AfterLine(buf) == SubSeq(buf, LineEnd(buf) + 1, Len(buf))

-----------------------------------------------------------------------------
Init ==
    /\ pc = "launch"
    /\ nsent = 0
    /\ error = "none"
    /\ alive = FALSE
    /\ inOpen = FALSE
    /\ outOpen = FALSE
    /\ stdinBytes = <<>>
    /\ pipe = <<>>
    /\ emitted = <<>>
    /\ nwrites = 0
    /\ earlyWrite = FALSE
    /\ dpc = "idle"
    /\ dline = <<>>
    /\ q = <<>>
    /\ observed = <<>>
    /\ console = <<>>
    /\ bestmove = None

\* the script has ended: normally, or by an uncaught exception
Ended == pc \in {"done", "aborted"}

-----------------------------------------------------------------------------
(* Main thread *)

\* subprocess.Popen succeeds
LaunchOk ==
    /\ pc = "launch"
    /\ pc' = "start"
    /\ alive' = TRUE /\ inOpen' = TRUE /\ outOpen' = TRUE
    /\ UNCHANGED <<nsent, error, stdinBytes, pipe, emitted, nwrites, earlyWrite,
                   dpc, dline, q, observed, console, bestmove>>

\* mutant of LaunchFail: the failed launch is noted and the script goes on
LaunchFail_Continue ==
    /\ pc = "launch"
    /\ pc' = "start"
    /\ error' = "OSError"
    /\ UNCHANGED <<nsent, alive, inOpen, outOpen, stdinBytes, pipe, emitted, nwrites,
                   earlyWrite, dpc, dline, q, observed, console, bestmove>>

\* subprocess.Popen raises (binary missing or not executable)
LaunchFail ==
    /\ pc = "launch"
    /\ pc' = "aborted"
    /\ error' = "OSError"
    /\ UNCHANGED <<nsent, alive, inOpen, outOpen, stdinBytes, pipe, emitted, nwrites,
                   earlyWrite, dpc, dline, q, observed, console, bestmove>>

\* q = queue.Queue(); t = threading.Thread(...); t.daemon = True; t.start()
StartDrainer ==
    /\ pc = "start"
    /\ pc' = "send"
    /\ q' = <<>>
    /\ dpc' = "read"
    /\ UNCHANGED <<nsent, error, alive, inOpen, outOpen, stdinBytes, pipe, emitted,
                   nwrites, earlyWrite, dline, observed, console, bestmove>>

\* mutant of send: the write error is swallowed and the script goes on
send_Swallow(cmd) ==
    /\ stdinBytes' = IF inOpen THEN stdinBytes \o Encode(cmd \o <<NL>>) ELSE stdinBytes
    /\ nsent' = nsent + 1
    /\ error' = error

\* mutant of send: the line terminator is left out
send_NoNewline(cmd) ==
    IF inOpen
    THEN /\ stdinBytes' = stdinBytes \o Encode(cmd)
         /\ nsent' = nsent + 1
         /\ error' = error
    ELSE /\ stdinBytes' = stdinBytes
         /\ nsent' = nsent
         /\ error' = "BrokenPipeError"

\* send(cmd): write and flush, or BrokenPipeError when the read end is gone
send(cmd) ==
    IF inOpen
    THEN /\ stdinBytes' = stdinBytes \o Encode(cmd \o <<NL>>)
         /\ nsent' = nsent + 1
         /\ error' = error
    ELSE /\ stdinBytes' = stdinBytes
         /\ nsent' = nsent
         /\ error' = "BrokenPipeError"

\* bytes the stdin pipe holds before a write to it has to wait for the engine
\* to read (the smallest default among the platforms, Windows' anonymous pipe)
PipeCapacity == 4096

\* mutant of CanFlush: the pipe takes a write only when it is empty
CanFlush_Unbuffered(cmd) ==
    ~inOpen \/ stdinBytes = <<>>

\* engine.stdin.flush() returns without waiting for the engine to read: the
\* bytes fit even if the engine has read nothing of what was written so far
CanFlush(cmd) ==
    ~inOpen \/ Len(stdinBytes) + Len(Encode(cmd \o <<NL>>)) <= PipeCapacity

\* one of the send(...) calls of lines 32-46
SendCommand ==
    /\ pc = "send"
    /\ CanFlush(Script[nsent + 1])
    /\ send(Script[nsent + 1])
    /\ pc' = IF error' # "none" THEN "aborted"          \* the exception propagates
             ELSE IF nsent' = Len(Script) THEN "wait" ELSE "send"
    /\ UNCHANGED <<alive, inOpen, outOpen, pipe, emitted, nwrites, earlyWrite,
                   dpc, dline, q, observed, console, bestmove>>

\* mutant of PollLine: only the matching line is echoed
PollLine_EchoMatchOnly ==
    /\ pc = "wait"
    /\ q # <<>>
    /\ LET line == Head(q) IN
         /\ q' = Tail(q)
         /\ observed' = Append(observed, line)
         /\ IF StartsWith(line, BESTMOVE)
            THEN /\ console' = Append(console, [prefix |-> "ENGINE:", text |-> line])
                 /\ bestmove' = line /\ pc' = "final"
            ELSE /\ console' = console
                 /\ bestmove' = bestmove /\ pc' = "wait"
    /\ UNCHANGED <<nsent, error, alive, inOpen, outOpen, stdinBytes, pipe, emitted,
                   nwrites, earlyWrite, dpc, dline>>

\* mutant of PollLine: the echo comes after the check, so the matching line is not echoed
PollLine_EchoAfterCheck ==
    /\ pc = "wait"
    /\ q # <<>>
    /\ LET line == Head(q) IN
         /\ q' = Tail(q)
         /\ observed' = Append(observed, line)
         /\ IF StartsWith(line, BESTMOVE)
            THEN /\ console' = console
                 /\ bestmove' = line /\ pc' = "final"
            ELSE /\ console' = Append(console, [prefix |-> "ENGINE:", text |-> line])
                 /\ bestmove' = bestmove /\ pc' = "wait"
    /\ UNCHANGED <<nsent, error, alive, inOpen, outOpen, stdinBytes, pipe, emitted,
                   nwrites, earlyWrite, dpc, dline>>

\* mutant of PollLine: the break is outside the if, so the first line ends the loop
PollLine_BreakAlways ==
    /\ pc = "wait"
    /\ q # <<>>
    /\ LET line == Head(q) IN
         /\ q' = Tail(q)
         /\ observed' = Append(observed, line)
         /\ console' = Append(console, [prefix |-> "ENGINE:", text |-> line])
         /\ bestmove' = (IF StartsWith(line, BESTMOVE) THEN line ELSE bestmove)
         /\ pc' = "final"
    /\ UNCHANGED <<nsent, error, alive, inOpen, outOpen, stdinBytes, pipe, emitted,
                   nwrites, earlyWrite, dpc, dline>>

\* mutant of PollLine: the newest line is taken instead of the oldest
PollLine_Lifo ==
    /\ pc = "wait"
    /\ q # <<>>
    /\ LET line == q[Len(q)] IN
         /\ q' = SubSeq(q, 1, Len(q) - 1)
         /\ observed' = Append(observed, line)
         /\ console' = Append(console, [prefix |-> "ENGINE:", text |-> line])
         /\ IF StartsWith(line, BESTMOVE)
            THEN bestmove' = line /\ pc' = "final"
            ELSE bestmove' = bestmove /\ pc' = "wait"
    /\ UNCHANGED <<nsent, error, alive, inOpen, outOpen, stdinBytes, pipe, emitted,
                   nwrites, earlyWrite, dpc, dline>>

\* mutant of PollLine: every dequeued line is stored as the result
PollLine_CaptureAny ==
    /\ pc = "wait"
    /\ q # <<>>
    /\ LET line == Head(q) IN
         /\ q' = Tail(q)
         /\ observed' = Append(observed, line)
         /\ console' = Append(console, [prefix |-> "ENGINE:", text |-> line])
         /\ bestmove' = line
         /\ pc' = IF StartsWith(line, BESTMOVE) THEN "final" ELSE "wait"
    /\ UNCHANGED <<nsent, error, alive, inOpen, outOpen, stdinBytes, pipe, emitted,
                   nwrites, earlyWrite, dpc, dline>>

\* one iteration of the wait loop in which q.get returns a line
PollLine ==
    /\ pc = "wait"
    /\ q # <<>>
    /\ LET line == Head(q) IN
         /\ q' = Tail(q)
         /\ observed' = Append(observed, line)
         /\ console' = Append(console, [prefix |-> "ENGINE:", text |-> line])
         /\ IF StartsWith(line, BESTMOVE)
            THEN bestmove' = line /\ pc' = "final"
            ELSE bestmove' = bestmove /\ pc' = "wait"
    /\ UNCHANGED <<nsent, error, alive, inOpen, outOpen, stdinBytes, pipe, emitted,
                   nwrites, earlyWrite, dpc, dline>>

\* mutant of PollTimeout: queue.Empty ends the loop
PollTimeout_Break ==
    /\ pc = "wait"
    /\ q = <<>>
    /\ pc' = "final"
    /\ UNCHANGED <<nsent, error, alive, inOpen, outOpen, stdinBytes, pipe, emitted, nwrites,
                   earlyWrite, dpc, dline, q, observed, console, bestmove>>

\* one iteration of the wait loop in which q.get raises queue.Empty
PollTimeout ==
    /\ pc = "wait"
    /\ q = <<>>
    /\ UNCHANGED vars

\* mutant of PrintFinal: the main sequence empties the queue after the loop
PrintFinal_Flush ==
    /\ pc = "final"
    /\ console' = Append(console, [prefix |-> "Final engine move:", text |-> bestmove])
    /\ pc' = "quit"
    /\ q' = <<>>
    /\ UNCHANGED <<nsent, error, alive, inOpen, outOpen, stdinBytes, pipe, emitted,
                   nwrites, earlyWrite, dpc, dline, observed, bestmove>>

\* print("\nFinal engine move:", bestmove)
PrintFinal ==
    /\ pc = "final"
    /\ console' = Append(console, [prefix |-> "Final engine move:", text |-> bestmove])
    /\ pc' = "quit"
    /\ UNCHANGED <<nsent, error, alive, inOpen, outOpen, stdinBytes, pipe, emitted,
                   nwrites, earlyWrite, dpc, dline, q, observed, bestmove>>

\* send("quit")
SendQuit ==
    /\ pc = "quit"
    /\ CanFlush(QUIT)
    /\ send(QUIT)
    /\ pc' = IF error' # "none" THEN "aborted" ELSE "ewait"
    /\ UNCHANGED <<alive, inOpen, outOpen, pipe, emitted, nwrites, earlyWrite,
                   dpc, dline, q, observed, console, bestmove>>

\* mutant of EngineWait: the wait returns whether or not the engine has exited
EngineWait_Poll ==
    /\ pc = "ewait"
    /\ pc' = "done"
    /\ UNCHANGED <<nsent, error, alive, inOpen, outOpen, stdinBytes, pipe, emitted,
                   nwrites, earlyWrite, dpc, dline, q, observed, console, bestmove>>

\* mutant of EngineWait: the drainer thread is joined before the script ends
EngineWait_Join ==
    /\ pc = "ewait"
    /\ ~alive
    /\ dpc \in {"closed", "crashed"}
    /\ pc' = "done"
    /\ UNCHANGED <<nsent, error, alive, inOpen, outOpen, stdinBytes, pipe, emitted,
                   nwrites, earlyWrite, dpc, dline, q, observed, console, bestmove>>

\* engine.wait() returns
EngineWait ==
    /\ pc = "ewait"
    /\ ~alive
    /\ pc' = "done"
    /\ UNCHANGED <<nsent, error, alive, inOpen, outOpen, stdinBytes, pipe, emitted,
                   nwrites, earlyWrite, dpc, dline, q, observed, console, bestmove>>

-----------------------------------------------------------------------------
(* Drainer thread: enqueue_output.  A daemon thread, it stops with the     *)
(* script.                                                                 *)

\* line = stream.readline(): blocks until a full line or end of stream
DrainerRead ==
    /\ dpc = "read"
    /\ ~Ended
    /\ HasNewline(pipe) \/ ~outOpen
    /\ LET line == ReadLine(pipe) IN
         /\ pipe' = AfterLine(pipe)
         /\ IF line = <<>>
            THEN dpc' = "closed" /\ dline' = <<>>      \* sentinel b"": stream.close()
            ELSE dpc' = "put" /\ dline' = line
    /\ UNCHANGED <<mainVars, engineVars, q>>

\* mutant of DrainerPut: the line is put on the queue twice
DrainerPut_Twice ==
    /\ dpc = "put"
    /\ ~Ended
    /\ IF DecodeFails(dline)
       THEN dpc' = "crashed" /\ q' = q
       ELSE dpc' = "read" /\ q' = q \o <<RStripNL(Decode(dline)), RStripNL(Decode(dline))>>
    /\ dline' = <<>>
    /\ UNCHANGED <<mainVars, engineVars, pipe>>

\* q.put(line.decode("utf-8").rstrip("\n"))
DrainerPut ==
    /\ dpc = "put"
    /\ ~Ended
    /\ IF DecodeFails(dline)
       THEN dpc' = "crashed" /\ q' = q               \* UnicodeDecodeError ends the thread
       ELSE dpc' = "read" /\ q' = Append(q, RStripNL(Decode(dline)))
    /\ dline' = <<>>
    /\ UNCHANGED <<mainVars, engineVars, pipe>>

-----------------------------------------------------------------------------
(* The engine process: opaque, so every behaviour is allowed *)

EngineWrite ==
    /\ alive /\ outOpen /\ ~Ended
    /\ nwrites < MaxWrites
    /\ \E c \in Chunks :
         /\ pipe' = pipe \o c
         /\ emitted' = emitted \o c
    /\ nwrites' = nwrites + 1
    /\ earlyWrite' = (earlyWrite \/ nsent < Len(Script))
    /\ UNCHANGED <<mainVars, drainVars, q, alive, inOpen, outOpen>>

EngineCloseOutput ==
    /\ alive /\ outOpen /\ ~Ended
    /\ outOpen' = FALSE
    /\ UNCHANGED <<mainVars, drainVars, q, pipe, alive, inOpen, emitted, nwrites, earlyWrite>>

EngineCloseInput ==
    /\ alive /\ inOpen /\ ~Ended
    /\ inOpen' = FALSE
    /\ UNCHANGED <<mainVars, drainVars, q, pipe, alive, outOpen, emitted, nwrites, earlyWrite>>

EngineExit ==
    /\ alive /\ ~Ended
    /\ alive' = FALSE /\ inOpen' = FALSE /\ outOpen' = FALSE
    /\ UNCHANGED <<mainVars, drainVars, q, pipe, emitted, nwrites, earlyWrite>>

-----------------------------------------------------------------------------
Next ==
    \/ LaunchOk
    \/ LaunchFail
    \/ StartDrainer
    \/ SendCommand
    \/ PollLine
    \/ PollTimeout
    \/ PrintFinal
    \/ SendQuit
    \/ EngineWait
    \/ DrainerRead
    \/ DrainerPut
    \/ EngineWrite
    \/ EngineCloseOutput
    \/ EngineCloseInput
    \/ EngineExit

Spec == Init /\ [][Next]_vars

\* the steps of the script's two threads
MainStep ==
    \/ LaunchOk \/ LaunchFail \/ StartDrainer \/ SendCommand \/ PollLine \/ PollTimeout
    \/ PrintFinal \/ SendQuit \/ EngineWait

\* weak fairness of DrainerPut written out: ENABLED <<DrainerPut>>_vars is
\* dpc = "put" /\ ~Ended, the step always changing dpc
DrainerPutFair == []<>~(dpc = "put" /\ ~Ended) \/ []<><<DrainerPut>>_vars

\* both threads of the script are scheduled fairly; nothing is assumed of the engine
FairSpec == Spec /\ WF_vars(MainStep) /\ WF_vars(DrainerRead) /\ DrainerPutFair

-----------------------------------------------------------------------------
(* Vocabulary of the properties *)

IsPrefix(a, b) == Len(a) <= Len(b) /\ SubSeq(b, 1, Len(a)) = a

\* the raw lines of a byte stream: each through its "\n", and the unterminated
\* rest, if any, as the last one
RECURSIVE RawLines(_)
RawLines(bs) ==
    IF bs = <<>> THEN <<>>
    ELSE LET n == IF \E i \in 1..Len(bs) : bs[i] = NL
                  THEN CHOOSE i \in 1..Len(bs) : bs[i] = NL /\ \A j \in 1..(i - 1) : bs[j] # NL
                  ELSE Len(bs)
         IN <<SubSeq(bs, 1, n)>> \o RawLines(SubSeq(bs, n + 1, Len(bs)))

\* the text of a raw line: decoded, without its terminator; None if it is not UTF-8
LineText(raw) ==
    LET t == IF \A i \in 1..Len(raw) : raw[i] < 128 THEN raw   \* ASCII decodes to itself
             ELSE IF DecodeFails(raw) THEN None
             ELSE Decode(raw)
    IN IF t # <<>> /\ t[Len(t)] = NL THEN SubSeq(t, 1, Len(t) - 1) ELSE t

\* the lines the engine has emitted so far, in emission order
EmittedLines ==
    LET raw == RawLines(emitted) IN [i \in 1..Len(raw) |-> LineText(raw[i])]

\* the line begins with the literal "bestmove"
BeginsWithBestmove(s) == Len(s) >= 8 /\ SubSeq(s, 1, 8) = BESTMOVE

\* index of the first emitted line that begins with "bestmove", 0 if none
FirstIn(L) ==
    IF \E i \in 1..Len(L) : BeginsWithBestmove(L[i])
    THEN CHOOSE i \in 1..Len(L) :
            BeginsWithBestmove(L[i]) /\ \A j \in 1..(i - 1) : ~BeginsWithBestmove(L[j])
    ELSE 0

FirstBestmove == FirstIn(EmittedLines)

\* the texts of the "ENGINE:" echoes, in print order
RECURSIVE EchoesOf(_)
EchoesOf(c) ==
    IF c = <<>> THEN <<>>
    ELSE IF Head(c).prefix = "ENGINE:" THEN <<Head(c).text>> \o EchoesOf(Tail(c))
    ELSE EchoesOf(Tail(c))

EngineEchoes == EchoesOf(console)

\* the wait loop has been left through its break
LoopExited == pc \in {"final", "quit", "ewait", "done"} \/ (pc = "aborted" /\ nsent >= Len(Script))

-----------------------------------------------------------------------------
C2_AllEmittedObserved ==
    pc = "done" => observed = EmittedLines

\* C2 amended: the observed lines are always a prefix of the emitted lines, and
\* once the wait loop has exited they are exactly the emitted lines up to and
\* including the first one that begins with "bestmove".
C2_ObservedUpToFirstBestmove ==
    LET L == EmittedLines IN
    /\ IsPrefix(observed, L)
    /\ LoopExited =>
         /\ FirstIn(L) > 0
         /\ observed = SubSeq(L, 1, FirstIn(L))

\* C2 witness: the loop has exited and a line emitted after the bestmove line
\* was not observed
C2_Witness ==
    /\ pc = "done"
    /\ Len(observed) >= 1
    /\ Len(EmittedLines) > Len(observed)

\* C3: once the output stream is closed with no emitted line beginning with
\* "bestmove", the main thread never leaves the poll loop; and the final echo,
\* "quit" and the process wait are reached only if such a line was emitted.
C3_NoBestmoveNeverTerminates ==
    /\ [](LoopExited => FirstBestmove > 0)
    /\ [][(pc = "wait" /\ ~outOpen /\ FirstBestmove = 0)
            => (/\ pc' = "wait"
                /\ stdinBytes' = stdinBytes
                /\ \A i \in 1..Len(console') : console'[i].prefix = "ENGINE:")]_vars

\* C3 witness: the engine has exited having emitted only diagnostic lines, the
\* drainer has finished, and the main thread is polling the empty queue
C3_Witness ==
    /\ pc = "wait" /\ ~alive /\ dpc = "closed" /\ q = <<>>
    /\ Len(observed) >= 1 /\ FirstBestmove = 0

\* "bestmove m a2a3"
MoveText == <<98, 101, 115, 116, 109, 111, 118, 101, 32, 109, 32, 97, 50, 97, 51>>

\* "é bestmove"
DiagText == <<233, 32, 98, 101, 115, 116, 109, 111, 118, 101>>

\* the commands the engine has been sent, parsed back from the bytes on its stdin
Cmds ==
    LET raw == RawLines(stdinBytes) IN [i \in 1..Len(raw) |-> LineText(raw[i])]

\* the bytes of the whole command stream: "position 1w\nsetup\n", the eight
\* rows, "end\ngo\nquit\n"
ExpectedStream ==
    << 112, 111, 115, 105, 116, 105, 111, 110, 32, 49, 119, 10, 115, 101, 116, 117, 112,
       10, 32, 32, 114, 32, 114, 32, 114, 32, 114, 32, 114, 32, 114, 32, 114, 32, 114, 10,
       32, 32, 104, 32, 99, 32, 100, 32, 109, 32, 101, 32, 100, 32, 99, 32, 104, 10, 32,
       32, 46, 32, 46, 32, 46, 32, 46, 32, 46, 32, 46, 32, 46, 32, 46, 10, 32, 32, 46, 32,
       46, 32, 46, 32, 46, 32, 46, 32, 46, 32, 46, 32, 46, 10, 32, 32, 46, 32, 46, 32, 46,
       32, 46, 32, 46, 32, 46, 32, 46, 32, 46, 10, 32, 32, 46, 32, 46, 32, 46, 32, 46, 32,
       46, 32, 46, 32, 46, 32, 46, 10, 32, 32, 72, 32, 67, 32, 68, 32, 77, 32, 69, 32, 68,
       32, 67, 32, 72, 10, 32, 32, 82, 32, 82, 32, 82, 32, 82, 32, 82, 32, 82, 32, 82, 32,
       82, 10, 101, 110, 100, 10, 103, 111, 10, 113, 117, 105, 116, 10 >>

\* the "Final engine move:" echoes, in print order
RECURSIVE FinalsOf(_)
FinalsOf(c) ==
    IF c = <<>> THEN <<>>
    ELSE IF Head(c).prefix = "Final engine move:" THEN <<Head(c).text>> \o FinalsOf(Tail(c))
    ELSE FinalsOf(Tail(c))

\* the print after the wait loop has run
FinalPrinted == pc \in {"quit", "ewait", "done"} \/ (pc = "aborted" /\ nsent >= Len(Script))

\* the stub engine of the end-to-end scenario has run: silent until "go" was
\* sent, then it wrote "bestmove m a2a3\n" and exited
StubRan == ~earlyWrite /\ emitted = BestmoveLine /\ ~alive

-----------------------------------------------------------------------------
\* C4: with the stub engine that answers "go" with "bestmove m a2a3" and
\* exits, the session ends successfully: it captured that line, sent "quit"
\* and returned from the process wait without an error.
C4_StubSessionSucceeds ==
    (StubRan /\ Ended) =>
        /\ pc = "done" /\ error = "none"
        /\ bestmove = MoveText
        /\ Len(Cmds) = Len(Script) + 1 /\ Cmds[Len(Cmds)] = QUIT

\* C5: a send issued after the process has exited raises BrokenPipeError and
\* writes nothing; the error aborts the script for good, so no later command is
\* written and the code after the failed send (wait loop, quit, process wait)
\* never runs.
C5_SendAfterExitAborts ==
    /\ [][(~alive /\ pc \in {"send", "quit"} /\ <<pc, nsent, error>>' # <<pc, nsent, error>>)
            => (/\ pc' = "aborted" /\ error' = "BrokenPipeError"
                /\ stdinBytes' = stdinBytes /\ nsent' = nsent)]_vars
    /\ [][pc = "aborted" => (pc' = "aborted" /\ UNCHANGED <<stdinBytes, observed, console>>)]_vars
    /\ []((pc = "aborted" /\ error = "BrokenPipeError") =>
            LET c == Cmds IN
            /\ Len(c) = nsent /\ Len(c) <= Len(Script)
            /\ c = SubSeq(Script, 1, Len(c))
            /\ nsent < Len(Script) => (observed = <<>> /\ console = <<>> /\ bestmove = None))

\* C5 witness: the engine exited during the setup and the next send aborted
C5_Witness ==
    /\ pc = "aborted" /\ error = "BrokenPipeError" /\ ~alive
    /\ nsent >= 1 /\ nsent < Len(Script)
    /\ Len(Cmds) = nsent

\* C6: when the loop has matched, the ENGINE: echoes are the emitted lines
\* up to and including the matched one, in emission order; every echoed line
\* before the last is a diagnostic line and the last is the first emitted line
\* that begins with "bestmove".
C6_DiagnosticsEchoedBeforeMatch ==
    bestmove # None =>
        LET E == EngineEchoes
            L == EmittedLines
            k == Len(E)
        IN /\ k >= 1 /\ k <= Len(L)
           /\ \A i \in 1..k : E[i] = L[i]
           /\ \A i \in 1..(k - 1) : ~BeginsWithBestmove(L[i])
           /\ BeginsWithBestmove(L[k])
           /\ bestmove = L[k]

\* C6 witness: N = 2 diagnostic lines were echoed before the match
C6_Witness ==
    /\ bestmove = MoveText
    /\ Len(EngineEchoes) = 3
    /\ EngineEchoes[1] = DiagText /\ EngineEchoes[2] = <<>>
    /\ EngineEchoes[3] = MoveText

\* C7: a dequeued line ends the loop if and only if it begins with
\* "bestmove"; any other line, also one containing "bestmove" further in, is
\* echoed and the loop goes on; the loop ends in no other way.
C7_PrefixCheckOnly ==
    [][/\ (pc = "wait" /\ observed' # observed) =>
            /\ q # <<>> /\ observed' = Append(observed, Head(q))
            /\ (pc' = "final") <=> BeginsWithBestmove(Head(q))
            /\ ~BeginsWithBestmove(Head(q)) =>
                 /\ pc' = "wait"
                 /\ console' = Append(console, [prefix |-> "ENGINE:", text |-> Head(q)])
       /\ (pc = "wait" /\ pc' # "wait") => observed' # observed]_vars

\* C7 witness: "é bestmove" was dequeued and echoed, and the loop continues
C7_Witness ==
    /\ pc = "wait"
    /\ \E i \in 1..Len(observed) : observed[i] = DiagText /\ EngineEchoes[i] = DiagText

\* C8 as stated: when the session is over every line the engine emitted has
\* an ENGINE: echo, in emission order.
C8_EveryEmittedLineEchoed ==
    pc = "done" => EngineEchoes = EmittedLines

\* C8 amended: every line the wait loop dequeues is echoed with "ENGINE:", in
\* emission order; the echoes stop with the first line that begins with
\* "bestmove", and that line is echoed once more, as "Final engine move:",
\* after the loop and after all ENGINE: echoes.
C8_DequeuedLinesEchoed ==
    LET E == EngineEchoes
        L == EmittedLines
    IN /\ E = observed
       /\ IsPrefix(E, L)
       /\ LoopExited => Len(E) = FirstIn(L)
       /\ FinalsOf(console) = IF FinalPrinted THEN <<bestmove>> ELSE <<>>
       /\ FinalPrinted => /\ console[Len(console)].prefix = "Final engine move:"
                          /\ bestmove = E[Len(E)]

\* C8 witness: the session is over and a line emitted after the bestmove line
\* has no echo
C8_Witness ==
    /\ pc = "done"
    /\ Len(EmittedLines) > Len(EngineEchoes)
    /\ FinalsOf(console) = <<MoveText>>

\* C9: the bytes written to the engine's stdin are a function of the number of
\* sends alone: always the first nsent commands of the one fixed stream, each
\* with its "\n", whatever the engine wrote and however the threads ran. (Two
\* sessions' streams are then both prefixes of that stream, and equal when
\* both sessions complete.)
C9_CommandStreamDeterministic ==
    /\ IsPrefix(stdinBytes, ExpectedStream)
    /\ Cardinality({i \in 1..Len(stdinBytes) : stdinBytes[i] = NL}) = nsent
    /\ stdinBytes # <<>> => stdinBytes[Len(stdinBytes)] = NL
    /\ pc \in {"wait", "final", "quit"} => nsent = Len(Script)
    /\ pc \in {"ewait", "done"} => stdinBytes = ExpectedStream

\* C9 witness: a completed session whose engine wrote several lines
C9_Witness ==
    /\ pc = "done" /\ stdinBytes = ExpectedStream
    /\ Len(observed) >= 2 /\ Len(EmittedLines) >= 3

\* order of the positions of the main thread
Rank(p) ==
    CASE p = "launch" -> 0 [] p = "start" -> 1 [] p = "send" -> 2 [] p = "wait" -> 3
      [] p = "final" -> 4 [] p = "quit" -> 5 [] p = "ewait" -> 6 [] p = "done" -> 7
      [] p = "aborted" -> 8

\* C10: the session only moves forward (Started, AwaitingResult, Finished,
\* shutdown); "go" is the twelfth command, after the whole setup ending in
\* "end"; "quit" is sent only after the wait loop observed a line beginning
\* with "bestmove", at most once, and is the last command.
C10_LifecycleMonotone ==
    /\ [][Rank(pc') >= Rank(pc)]_vars
    /\ [](LET c == Cmds IN
          /\ \A i \in 1..Len(c) :
               /\ c[i] = GO =>
                    /\ i = Len(Script)
                    /\ SubSeq(c, 1, i - 1) = SubSeq(Script, 1, i - 1)
                    /\ c[i - 1] = <<101, 110, 100>>
               /\ c[i] = QUIT =>
                    /\ i = Len(c)
                    /\ \A j \in 1..(i - 1) : c[j] # QUIT
                    /\ c[i - 1] = GO
                    /\ BeginsWithBestmove(bestmove)
                    /\ observed # <<>> /\ observed[Len(observed)] = bestmove
          /\ pc \in {"wait", "final", "quit"} => (Len(c) = Len(Script) /\ c[Len(c)] = GO)
          /\ pc \in {"ewait", "done"} => (Len(c) = Len(Script) + 1 /\ c[Len(c)] = QUIT))

\* C10 witness: the session went through every stage and sent "quit" last
C10_Witness ==
    /\ pc = "done"
    /\ Len(Cmds) = Len(Script) + 1 /\ Cmds[Len(Script)] = GO /\ Cmds[Len(Cmds)] = QUIT
    /\ BeginsWithBestmove(bestmove)

-----------------------------------------------------------------------------
\* C11 as stated: apart from the poll nothing blocks for long: a send is
\* never kept waiting, and the process wait after "quit" always completes.
C11_OnlyThePollBlocks ==
    /\ [](pc \in {"send", "quit"} => ENABLED (SendCommand \/ SendQuit))
    /\ (pc = "ewait") ~> (pc = "done")

\* C11 amended: a send is never kept waiting (the whole command stream fits
\* the pipe even if the engine reads nothing); the process wait after "quit"
\* can return exactly when the engine has exited, and then it does return.
C11_SendsNeverBlockWaitBlocks ==
    /\ [](pc \in {"send", "quit"} => ENABLED (SendCommand \/ SendQuit))
    /\ [](pc = "ewait" => (ENABLED EngineWait <=> ~alive))
    /\ (pc = "ewait" /\ ~alive) ~> (pc = "done")

\* C11 witness: every command was written although the engine read nothing,
\* and the script is blocked in the process wait on an engine that goes on
C11_Witness ==
    /\ pc = "ewait" /\ alive /\ ~ENABLED EngineWait
    /\ stdinBytes = ExpectedStream

\* C12: the queue has one producer and one consumer: a step changes the
\* queue only by the drainer's put appending one line at the back (the main
\* thread standing still) or by the wait loop's get taking the front line
\* (the drainer standing still); launching, sending, the final echo, the
\* quit and the process wait leave the queue as it is.
C12_QueueOneProducerOneConsumer ==
    [][ /\ q' # q =>
            \/ /\ dpc = "put" /\ dpc' = "read"
               /\ Len(q') = Len(q) + 1 /\ IsPrefix(q, q')
               /\ pc' = pc /\ observed' = observed /\ console' = console
            \/ /\ pc = "wait" /\ q # <<>>
               /\ q' = Tail(q) /\ observed' = Append(observed, Head(q))
               /\ dpc' = dpc /\ dline' = dline
        /\ (pc # "wait" /\ pc' # pc) \/ nsent' # nsent \/ stdinBytes' # stdinBytes
              => q' = q
      ]_vars

\* C12 witness: the session is complete after the drainer has produced, the
\* wait loop has consumed, and a line is still queued
C12_Witness ==
    /\ pc = "done"
    /\ observed # <<>>
    /\ Len(q) = 2

\* C13: a failed launch aborts the program on the spot: in every state
\* after it the script is aborted, the drainer was never started, the queue
\* is empty, no command was sent and no process exists.  Otherwise the
\* process is spawned once: a process comes alive only in the launch step
\* and the main sequence never returns to the launch.
C13_LaunchFailureAborts ==
    /\ [](error = "OSError" =>
            /\ pc = "aborted" /\ dpc = "idle" /\ dline = <<>>
            /\ q = <<>> /\ observed = <<>> /\ console = <<>>
            /\ nsent = 0 /\ stdinBytes = <<>>
            /\ ~alive /\ emitted = <<>> /\ nwrites = 0)
    /\ [][ /\ (~alive /\ alive') => (pc = "launch" /\ pc' = "start")
           /\ pc # "launch" => pc' # "launch"
           /\ (pc = "launch" /\ pc' = "start") => (alive' /\ error' = "none")
           /\ dpc = "idle" /\ dpc' # "idle" => pc = "start" /\ alive' = alive ]_vars

\* C13 witness: the launch has failed and the program is aborted
C13_Witness ==
    /\ pc = "aborted"
    /\ error = "OSError"
    /\ dpc = "idle"

\* the engine has emitted a complete (newline-terminated) line that begins
\* with "bestmove"
BestmoveLineEmitted ==
    LET raw == RawLines(emitted) IN
      \E i \in 1..Len(raw) :
         /\ raw[i][Len(raw[i])] = NL
         /\ BeginsWithBestmove(LineText(raw[i]))

\* C14 as stated: when the engine has emitted, after "go", a line that
\* begins with "bestmove", the wait loop eventually terminates under fair
\* scheduling of the drainer and the main thread, and the step that leaves
\* the loop is the dequeue of a line that begins with "bestmove", no
\* bestmove-prefixed line having been dequeued before it.
C14_BestmoveLineEndsTheLoop ==
    /\ (pc = "wait" /\ ~earlyWrite /\ BestmoveLineEmitted) ~> LoopExited
    /\ [][ (pc = "wait" /\ pc' # "wait") =>
              /\ q # <<>> /\ BeginsWithBestmove(Head(q))
              /\ \A i \in 1..Len(observed) : ~BeginsWithBestmove(observed[i]) ]_vars

\* C15 as stated: the drainer terminates only at the end of the stream: when
\* it has stopped, the stream is closed (by the engine and by the drainer)
\* and no unread bytes remain in it.
C15_DrainerStopsOnlyAtEndOfStream ==
    dpc \in {"closed", "crashed"} => (dpc = "closed" /\ ~outOpen /\ pipe = <<>>)

\* C16: the main sequence ends normally only after the engine process has
\* terminated: whenever the session is complete, every command through
\* "quit" has been written without error and the process has exited; the
\* step that completes the session is the return of the process wait with
\* the engine dead, and while the engine stays alive after "quit" the main
\* sequence stays in the wait.
C16_CompletesOnlyAfterExit ==
    /\ [](pc = "done" =>
            /\ ~alive
            /\ error = "none"
            /\ nsent = Len(Script) + 1
            /\ stdinBytes = ExpectedStream)
    /\ [][ /\ (pc # "done" /\ pc' = "done") => (pc = "ewait" /\ ~alive)
           /\ (pc = "ewait" /\ alive) => pc' = "ewait" ]_vars

\* C16 witness: the session is complete, "quit" was the last command sent
\* and the engine has exited
C16_Witness ==
    /\ pc = "done"
    /\ ~alive
    /\ nsent = Len(Script) + 1
    /\ bestmove # None

\* C17: the captured result is None in every state before the wait loop
\* exits; it is assigned once, by the step that leaves the loop; and after
\* the loop it is the first emitted line, in emission order, that begins with
\* "bestmove": no diagnostic line and no later bestmove line.
C17_ResultIsFirstBestmoveLine ==
    /\ [](~LoopExited => bestmove = None)
    /\ [](LoopExited =>
            LET L == EmittedLines
                k == FirstIn(L)
            IN /\ k > 0
               /\ bestmove = L[k]
               /\ BeginsWithBestmove(bestmove)
               /\ bestmove = observed[Len(observed)])
    /\ [][ bestmove' # bestmove =>
              (bestmove = None /\ pc = "wait" /\ pc' = "final") ]_vars

\* C17 witness: the session is complete, the engine having emitted the move
\* line and after it a second, different bestmove line; the result is the
\* move line
C17_Witness ==
    /\ pc = "done"
    /\ emitted = BestmoveLine \o Fragment
    /\ bestmove = MoveText
    /\ EmittedLines[2] = BESTMOVE

\* C18: the drainer runs independently of the wait loop: once the loop has
\* exited no step dequeues or echoes a line, so the queue only grows at its
\* back; and the main sequence never waits for the drainer: after the loop
\* each of its steps is enabled whatever the drainer is doing (the final
\* echo at once, the process wait as soon as the engine is dead), while the
\* drainer's read is enabled whenever the stream has a line or is closed.
C18_DrainerIndependentOfWaiter ==
    /\ [][ LoopExited =>
              /\ observed' = observed
              /\ EchoesOf(console') = EchoesOf(console)
              /\ IsPrefix(q, q') ]_vars
    /\ [](pc = "final" => ENABLED PrintFinal)
    /\ [](pc = "ewait" /\ ~alive => ENABLED EngineWait)
    /\ []((dpc = "read" /\ ~Ended /\ (HasNewline(pipe) \/ ~outOpen)) => ENABLED DrainerRead)

\* C18 witness: the session has ended with the drainer still running and
\* with the two lines emitted after the move line in the queue, neither
\* dequeued nor echoed
C18_Witness ==
    /\ pc = "done"
    /\ dpc = "read"
    /\ observed = <<MoveText>>
    /\ EngineEchoes = <<MoveText>>
    /\ q = <<DiagText, <<>>>>

====
